---- MODULE Spec2Model ----
(***************************************************************************)
(* A model of context_builder.py: the glob filter, the two directory walks *)
(* of ProjectScanner, the SQLite schema renderer, the SkillManager,        *)
(* run_generation and the interactive menu loop.                           *)
(*                                                                         *)
(* Text is modelled by TLA+ strings, a document by the sequence of its     *)
(* lines, a path by the sequence of its components below the working       *)
(* directory (<<>> is the working directory itself).                       *)
(***************************************************************************)
EXTENDS Integers, Sequences, FiniteSets, TLC

(***************************************************************************)
(* Strings.                                                                *)
(***************************************************************************)

\* The printable ASCII characters (less the double quote, the backslash and
\* the backquote, which a TLA+ string cannot hold) in code-point order, then
\* U+00B2.
Alphabet ==
    " !#$%&'()*+,-./0123456789:;<=>?@ABCDEFGHIJKLMNOPQRSTUVWXYZ[]^_abcdefghijklmnopqrstuvwxyz{|}~²"

Char(s, i) == SubSeq(s, i, i)

Chars(s) == { Char(s, i) : i \in 1..Len(s) }

OrdTable ==
    [ c \in Chars(Alphabet) |-> CHOOSE i \in 1..Len(Alphabet) : Char(Alphabet, i) = c ]

\* ord(c), as a position in Alphabet
Ord(c) == OrdTable[c]

\* str.startswith
startswith(s, p) == Len(s) >= Len(p) /\ SubSeq(s, 1, Len(p)) = p

\* str.endswith
endswith(s, p) == Len(s) >= Len(p) /\ SubSeq(s, Len(s) - Len(p) + 1, Len(s)) = p

\* str.lower, on the ASCII letters
lowerChar(c) ==
    IF Ord(c) >= Ord("A") /\ Ord(c) <= Ord("Z")
    THEN Char(Alphabet, Ord(c) + (Ord("a") - Ord("A")))
    ELSE c

RECURSIVE lower(_)
lower(s) == IF s = "" THEN "" ELSE lowerChar(Head(s)) \o lower(Tail(s))

\* str.strip
RECURSIVE lstrip(_)
lstrip(s) == IF s # "" /\ Head(s) = " " THEN lstrip(Tail(s)) ELSE s

RECURSIVE rstrip(_)
rstrip(s) ==
    IF s # "" /\ Char(s, Len(s)) = " " THEN rstrip(SubSeq(s, 1, Len(s) - 1)) ELSE s

strip(s) == rstrip(lstrip(s))

\* str.isdigit: true of the decimal digits and of the other characters with
\* the Unicode property Numeric_Type=Digit, such as U+00B2.
isdigit(s) == s # "" /\ \A c \in Chars(s) : c \in Chars("0123456789²")

\* int(s) raises ValueError unless every character is a decimal digit.
intRaises(s) == ~(s # "" /\ \A c \in Chars(s) : c \in Chars("0123456789"))

RECURSIVE int(_)
int(s) ==
    IF s = "" THEN 0
    ELSE 10 * int(SubSeq(s, 1, Len(s) - 1)) + (Ord(Char(s, Len(s))) - Ord("0"))

\* Python's comparison of two strings: code point by code point.
RECURSIVE strLess(_, _)
strLess(a, b) ==
    IF b = "" THEN FALSE
    ELSE IF a = "" THEN TRUE
    ELSE IF Head(a) = Head(b) THEN strLess(Tail(a), Tail(b))
    ELSE Ord(Head(a)) < Ord(Head(b))

\* sorted(S) for a set of strings
RECURSIVE sorted(_)
sorted(S) ==
    IF S = {} THEN <<>>
    ELSE LET m == CHOOSE x \in S : \A y \in S : x = y \/ strLess(x, y)
         IN  <<m>> \o sorted(S \ {m})

\* The position of the last occurrence of character c in s, 0 if none.
RECURSIVE rfind(_, _)
rfind(s, c) ==
    IF s = "" THEN 0
    ELSE IF Char(s, Len(s)) = c THEN Len(s)
    ELSE rfind(SubSeq(s, 1, Len(s) - 1), c)

\* os.path.basename
basename(p) == SubSeq(p, rfind(p, "/") + 1, Len(p))

\* os.path.splitext(name)[1] of a bare name: the part from the last dot on,
\* unless only dots precede that dot.
splitext(name) ==
    LET d == rfind(name, ".")
    IN  IF d > 0 /\ \E i \in 1..(d - 1) : Char(name, i) # "."
        THEN SubSeq(name, d, Len(name))
        ELSE ""

(***************************************************************************)
(* fnmatch.fnmatch on a POSIX system (normcase is the identity).  The      *)
(* range syntax a-z inside brackets is not modelled: no name or pattern of *)
(* the model has a '-' inside brackets.                                    *)
(***************************************************************************)

\* fnmatch.translate, the scan for the bracket closing the class that opens
\* before position i: the position of that bracket, or 0 when there is none.
RECURSIVE classScan(_, _)
classScan(pat, j) ==
    IF j > Len(pat) THEN 0
    ELSE IF Char(pat, j) = "]" THEN j
    ELSE classScan(pat, j + 1)

classEnd(pat, i) ==
    LET j1 == IF i <= Len(pat) /\ Char(pat, i) = "!" THEN i + 1 ELSE i
        j2 == IF j1 <= Len(pat) /\ Char(pat, j1) = "]" THEN j1 + 1 ELSE j1
    IN  classScan(pat, j2)

\* Whether character c is in the class whose text (between the brackets) is stuff.
inClass(c, stuff) ==
    IF stuff = "!" THEN TRUE
    ELSE IF Head(stuff) = "!" THEN c \notin Chars(Tail(stuff))
    ELSE c \in Chars(stuff)

RECURSIVE globMatch(_, _)
globMatch(name, pat) ==
    IF pat = "" THEN name = ""
    ELSE LET c == Head(pat)
             rest == Tail(pat)
         IN  IF c = "*"
             THEN \E k \in 0..Len(name) : globMatch(SubSeq(name, k + 1, Len(name)), rest)
             ELSE IF c = "?"
             THEN name # "" /\ globMatch(Tail(name), rest)
             ELSE IF c = "[" /\ classEnd(pat, 2) # 0
             THEN LET j == classEnd(pat, 2)
                  IN  /\ name # ""
                      /\ inClass(Head(name), SubSeq(pat, 2, j - 1))
                      /\ globMatch(Tail(name), SubSeq(pat, j + 1, Len(pat)))
             ELSE name # "" /\ Head(name) = c /\ globMatch(Tail(name), rest)

fnmatch(name, pat) == globMatch(name, pat)

(***************************************************************************)
(* The rule sets.  IGNORED_FILES is a module-level set that run_generation *)
(* adds to, so it is a variable; this is its value when the module loads.  *)
(***************************************************************************)

IGNORED_DIRS ==
    { ".git", "__pycache__", ".idea", ".venv", "venv", ".uv", "node_modules",
      "dist", "build", ".vscode", "skills" }

InitialIgnoredFiles ==
    { ".DS_Store", "*.pyc", "*.log", "*.html", "context_builder.py", ".env",
      "uv.lock", "package-lock.json", "yarn.lock", "poetry.lock" }

INCLUDE_HIDDEN_FILES == { ".env.example", ".gitignore", ".dockerignore" }

SQLITE_EXTENSIONS == { ".db", ".sqlite", ".sqlite3" }

SQLITE_EXACT_FILENAMES == { "database" }

(***************************************************************************)
(* Sequences of lines.  A backquote of the program's output is written as  *)
(* an apostrophe.                                                          *)
(***************************************************************************)

RECURSIVE flatten(_)
flatten(pieces) ==
    IF pieces = <<>> THEN <<>> ELSE Head(pieces) \o flatten(Tail(pieces))

\* "\n".join(pieces), each piece given by its lines; the empty string is one
\* empty line.
join(pieces) == IF pieces = <<>> THEN <<"">> ELSE flatten(pieces)

RECURSIVE indent(_)
indent(level) == IF level <= 0 THEN "" ELSE "    " \o indent(level - 1)

\* "/".join(p)
RECURSIVE pathJoin(_)
pathJoin(p) ==
    IF p = <<>> THEN ""
    ELSE IF Len(p) = 1 THEN p[1]
    ELSE p[1] \o "/" \o pathJoin(Tail(p))

(***************************************************************************)
(* The file system below the working directory.  The directories are       *)
(* fixed; files is the variable holding the regular files and links.       *)
(***************************************************************************)

CwdPath == "/proj"

Dirs ==
    { <<>>, <<"src">>, <<"docs">>, <<"build">>, <<"skills">>,
      <<"src", "build">>, <<"build", "src">> }

parent(p) == SubSeq(p, 1, Len(p) - 1)

leaf(p) == p[Len(p)]

\* os.path.abspath of a model path, as text
absStr(p) == IF p = <<>> THEN CwdPath ELSE CwdPath \o "/" \o pathJoin(p)

\* The components of a typed path, relative to the working directory:
\* os.path.abspath drops empty and "." components.
RECURSIVE split(_)
split(s) ==
    IF s = "" THEN <<>>
    ELSE LET k == CHOOSE i \in 1..(Len(s) + 1) :
                      /\ (i = Len(s) + 1 \/ Char(s, i) = "/")
                      /\ \A j \in 1..(i - 1) : Char(s, j) # "/"
             first == SubSeq(s, 1, k - 1)
             rest == split(SubSeq(s, k + 1, Len(s)))
         IN  IF first = "" \/ first = "." THEN rest ELSE <<first>> \o rest

abspath(s) == split(s)

\* os.path.isdir
isdir(s) == abspath(s) \in Dirs

(***************************************************************************)
(* State.                                                                  *)
(***************************************************************************)

VARIABLES
    files,              \* the files: path -> [st, body, tables]
    walkOrder,          \* the order in which the file system lists directories
    IGNORED_FILES,      \* the module-level set of file patterns
    pc,                 \* "main", "display" (the menu prompt) or "exited"
    exit_status,        \* the process's exit status once pc = "exited"
    current_source_dir, \* interactive_mode's local, as an absolute path
    output_file,        \* interactive_mode's local
    status_message,     \* interactive_mode's local
    available_skills,   \* SkillManager.available_skills
    selected_skills,    \* SkillManager.selected_skills
    open_conns,         \* SQLite connections opened and not closed
    gens,               \* the number of run_generation calls so far
    last,               \* what the last run_generation call computed
    last_toggle         \* the last toggle_skill call: index, set before, result

vars ==
    << files, walkOrder, IGNORED_FILES, pc, exit_status, current_source_dir,
       output_file, status_message, available_skills, selected_skills,
       open_conns, gens, last, last_toggle >>

\* A file's st: "ok"; "enoent", a dangling symbolic link; "eacces", a file the
\* process may not open; "notadb", a file whose bytes are not an SQLite
\* database (read as text it is its body).
FileStates == { "ok", "enoent", "eacces", "notadb" }

Range(q) == { q[i] : i \in 1..Len(q) }

(***************************************************************************)
(* ProjectScanner.                                                         *)
(***************************************************************************)

matches_any_pattern(name, patterns) == \E pattern \in patterns : fnmatch(name, pattern)

extension_map ==
    [ e \in { ".py", ".js", ".ts", ".tsx", ".jsx", ".html", ".css", ".scss",
              ".json", ".yml", ".yaml", ".md", ".sh", ".rb", ".java", ".c",
              ".cpp", ".cs", ".go", ".php", ".rs", ".sql", ".xml", ".toml",
              ".dockerfile", "Dockerfile", ".ini", ".conf" } |->
        CASE e = ".py" -> "python"
          [] e \in { ".js", ".jsx" } -> "javascript"
          [] e \in { ".ts", ".tsx" } -> "typescript"
          [] e \in { ".yml", ".yaml" } -> "yaml"
          [] e = ".md" -> "markdown"
          [] e = ".sh" -> "shell"
          [] e = ".rb" -> "ruby"
          [] e = ".cs" -> "csharp"
          [] e = ".rs" -> "rust"
          [] e \in { ".dockerfile", "Dockerfile" } -> "dockerfile"
          [] OTHER -> Tail(e) ]

get_language_hint(filename) ==
    LET ext == splitext(filename)
    IN  IF ext \in DOMAIN extension_map THEN extension_map[ext]
        ELSE IF filename \in DOMAIN extension_map THEN extension_map[filename]
        ELSE ""

\* The row of one column of PRAGMA table_info; dflt = "" stands for None, and
\* the check mark U+2705 is written PK.
columnRow(col) ==
    "| **" \o col.name \o "** | " \o col.dtype \o " | "
        \o (IF col.notnull THEN "No" ELSE "Yes") \o " | "
        \o (IF col.pk THEN "PK" ELSE "") \o " | "
        \o (IF col.dflt # "" THEN "'" \o col.dflt \o "'" ELSE "") \o " |"

foreignKeyRow(fk) ==
    "- '" \o fk.source_col \o "' references '" \o fk.target_table
        \o "(" \o fk.target_col \o ")'"

\* What the loop body of get_sqlite_schema appends for one table.
tablePieces(t) ==
    IF startswith(t.name, "sqlite_") THEN <<>>
    ELSE << <<"## Table: '" \o t.name \o "'">>,
            <<"| Column | Type | Nullable | PK | Default |">>,
            <<"|---|---|---|---|---|">> >>
         \o [ i \in 1..Len(t.cols) |-> <<columnRow(t.cols[i])>> ]
         \o << <<"">> >>
         \o (IF t.fks # <<>>
             THEN << <<"**Foreign Keys:**">> >>
                  \o [ i \in 1..Len(t.fks) |-> <<foreignKeyRow(t.fks[i])>> ]
                  \o << <<"">> >>
             ELSE <<>>)
         \o << <<"---", "">> >>

RECURSIVE allTablePieces(_)
allTablePieces(tables) ==
    IF tables = <<>> THEN <<>>
    ELSE tablePieces(Head(tables)) \o allTablePieces(Tail(tables))

\* get_sqlite_schema: the text returned, and the number of connections the
\* call opened and did not close.
get_sqlite_schema(db_path, f) ==
    IF f.st = "enoent"
    THEN [ text |-> <<"Error: Database file '" \o db_path \o "' not found.">>,
           unclosed |-> 0 ]
    ELSE IF f.st = "eacces"
    THEN \* sqlite3.connect raises: no connection exists
         [ text |-> <<"SQLite Error reading schema: unable to open database file">>,
           unclosed |-> 0 ]
    ELSE IF f.st = "notadb"
    THEN \* the first execute raises: the handler returns without conn.close()
         [ text |-> <<"SQLite Error reading schema: file is not a database">>,
           unclosed |-> 1 ]
    ELSE LET markdown_output ==
                 << <<"# SQLite Schema: " \o basename(db_path), "">> >>
                     \o allTablePieces(f.tables)
         IN  [ text |-> IF markdown_output = <<>>
                        THEN <<"Database is empty or contains no user tables.">>
                        ELSE join(markdown_output),
               unclosed |-> 0 ]

\* The subdirectories of d in the order os.scandir yields them.
subdirs(d) ==
    LET names == sorted({ leaf(p) : p \in { q \in Dirs : q # <<>> /\ parent(q) = d } })
        n == Len(names)
    IN  [ i \in 1..n |->
            d \o << IF walkOrder = "asc" THEN names[i] ELSE names[n + 1 - i] >> ]

\* The names of the non-directories in d.
filesIn(d) == { leaf(p) : p \in { q \in DOMAIN files : parent(q) = d } }

\* os.walk(top, topdown=True) with the caller's pruning of dirs[:] by the
\* patterns: the (root, files) pairs in the order visited.
RECURSIVE os_walk(_, _)
os_walk(top, prune) ==
    IF top \notin Dirs THEN <<>>
    ELSE LET kept == SelectSeq(subdirs(top),
                               LAMBDA d : ~matches_any_pattern(leaf(d), prune))
             below == [ i \in 1..Len(kept) |-> os_walk(kept[i], prune) ]
         IN  << [ root |-> top, files |-> filesIn(top) ] >> \o flatten(below)

\* files_to_show with the exception for hidden files applied first: an
\* included hidden name is shown whatever the ignore set says.
files_to_show_hidden_first(names, ignored) ==
    sorted({ f \in names :
               \/ matches_any_pattern(f, INCLUDE_HIDDEN_FILES)
               \/ (~matches_any_pattern(f, ignored) /\ ~startswith(f, ".")) })

\* files_to_show of generate_tree_structure, sorted
files_to_show(names, ignored) ==
    sorted({ f \in names :
               /\ ~matches_any_pattern(f, ignored)
               /\ (~startswith(f, ".") \/ matches_any_pattern(f, INCLUDE_HIDDEN_FILES)) })

dirName(d) == IF d = <<>> THEN basename(CwdPath) ELSE leaf(d)

\* generate_tree_structure: the (root, shown files) pairs it renders.
tree_entries(source_dir, ignored) ==
    LET w == os_walk(source_dir, IGNORED_DIRS)
    IN  [ i \in 1..Len(w) |->
            [ root |-> w[i].root, shown |-> files_to_show(w[i].files, ignored) ] ]

\* generate_tree_structure: the lines of the text it returns.
generate_tree_structure(source_dir, entries) ==
    LET render(e) ==
            LET level == Len(e.root) - Len(source_dir)
            IN  << indent(level) \o dirName(e.root) \o "/" >>
                \o [ k \in 1..Len(e.shown) |-> indent(level + 1) \o e.shown[k] ]
    IN  << "# " \o dirName(source_dir) \o " Project Structure", "'''" >>
        \o flatten([ i \in 1..Len(entries) |-> render(entries[i]) ])
        \o << "'''" >>

\* The file paths of a tree, in the order it lists them.
treeFiles(entries) ==
    flatten([ i \in 1..Len(entries) |->
                [ k \in 1..Len(entries[i].shown) |->
                    entries[i].root \o <<entries[i].shown[k]>> ] ])

\* process_directory, one file that passed the filters: the block appended to
\* all_files_content, or none when reading the file raises.
fileBlock(source_dir, path) ==
    LET file == leaf(path)
        f == files[path]
        relative_path == pathJoin(SubSeq(path, Len(source_dir) + 1, Len(path)))
        is_sqlite == \/ lower(splitext(file)) \in SQLITE_EXTENSIONS
                     \/ file \in SQLITE_EXACT_FILENAMES
        schema == get_sqlite_schema(absStr(path), f)
    IN  IF is_sqlite
        THEN << [ path |-> path, relative_path |-> relative_path,
                  lang_hint |-> "markdown", content |-> schema.text,
                  unclosed |-> schema.unclosed ] >>
        ELSE IF f.st \in { "enoent", "eacces" }
        THEN <<>>
        ELSE << [ path |-> path, relative_path |-> relative_path,
                  lang_hint |-> get_language_hint(file), content |-> f.body,
                  unclosed |-> 0 ] >>

\* process_directory: the blocks of all_files_content, in order.
scan_blocks(source_dir, ignored) ==
    LET w == os_walk(source_dir, IGNORED_DIRS)
        passes(file) ==
            /\ ~matches_any_pattern(file, ignored)
            /\ ~(startswith(file, ".") /\ ~matches_any_pattern(file, INCLUDE_HIDDEN_FILES))
        perDir(e) ==
            LET names == SelectSeq(sorted(e.files), passes)
            IN  flatten([ k \in 1..Len(names) |->
                            fileBlock(source_dir, e.root \o <<names[k]>>) ])
    IN  flatten([ i \in 1..Len(w) |-> perDir(w[i]) ])

formatted_content(b) ==
    << "", "---", "", "**File:** '" \o b.relative_path \o "'", "",
       "'''" \o b.lang_hint >> \o b.content \o << "'''" >>

\* process_directory: the lines of the text it returns.
process_directory(blocks) ==
    join([ i \in 1..Len(blocks) |-> formatted_content(blocks[i]) ])

(***************************************************************************)
(* SkillManager.                                                           *)
(***************************************************************************)

skills_dir == <<"skills">>

\* SkillManager._load_skills.  The script's own directory is the working
\* directory, so a missing skills directory leaves the list empty.
load_skills ==
    IF skills_dir \notin Dirs THEN <<>>
    ELSE sorted({ f \in filesIn(skills_dir) : endswith(f, ".md") })

\* toggle_skill that discards from a copy of the set: a selected skill stays
\* selected.
toggle_skill_keeps(index, selected) ==
    IF 0 <= index /\ index < Len(available_skills)
    THEN LET skill == available_skills[index + 1]
         IN  IF skill \in selected
             THEN [ selected |-> selected, result |-> "Removed skill: " \o skill ]
             ELSE [ selected |-> selected \cup {skill},
                    result |-> "Added skill: " \o skill ]
    ELSE [ selected |-> selected, result |-> "Invalid skill selection" ]

\* SkillManager.toggle_skill: the new selected set and the text returned.
toggle_skill(index, selected) ==
    IF 0 <= index /\ index < Len(available_skills)
    THEN LET skill == available_skills[index + 1]
         IN  IF skill \in selected
             THEN [ selected |-> selected \ {skill},
                    result |-> "Removed skill: " \o skill ]
             ELSE [ selected |-> selected \cup {skill},
                    result |-> "Added skill: " \o skill ]
    ELSE [ selected |-> selected, result |-> "Invalid skill selection" ]

\* str(e) of the OSError that open(path) raises on a file in state st.
openError(st, path) ==
    IF st = "eacces" THEN "[Errno 13] Permission denied: '" \o path \o "'"
    ELSE "[Errno 2] No such file or directory: '" \o path \o "'"

\* SkillManager.get_compiled_skills: the lines of the text returned; <<"">> is
\* the empty string.
get_compiled_skills(selected) ==
    IF selected = {} THEN <<"">>
    ELSE LET order == sorted(selected)
             piece(skill_file) ==
                 LET path == skills_dir \o <<skill_file>>
                 IN  IF files[path].st \in { "ok", "notadb" }
                     THEN <<"## Skill Module: " \o skill_file>>
                          \o files[path].body \o <<"---", "">>
                     ELSE <<"Error loading skill " \o skill_file \o ": "
                            \o openError(files[path].st, pathJoin(path))>>
         IN  join(<< <<"# ACTIVE AGENT SKILLS & PERSONAS", "">>,
                     <<"The following skills are active for this session. Adopt these roles and guidelines:", "">> >>
                  \o [ i \in 1..Len(order) |-> piece(order[i]) ])

(***************************************************************************)
(* run_generation.                                                         *)
(***************************************************************************)

\* A KeyboardInterrupt at the prompt, as a line typed.
Interrupt == "^C"

\* get_input_with_cancel that cancels on an empty line only.
get_input_cancel_on_empty(typed) ==
    IF typed = Interrupt THEN ""
    ELSE strip(typed)

\* get_input_with_cancel; "" stands for None (the function never returns an
\* empty string).
get_input_with_cancel(typed) ==
    IF typed = Interrupt THEN ""
    ELSE LET user_input == strip(typed)
         IN  IF user_input = "" \/ lower(user_input) = "b" THEN "" ELSE user_input

RECURSIVE sumUnclosed(_)
sumUnclosed(blocks) ==
    IF blocks = <<>> THEN 0 ELSE Head(blocks).unclosed + sumUnclosed(Tail(blocks))

\* final_output with the marker appended whether or not a skill is compiled.
final_output_marker_always(skills_content, tree, content) ==
    (IF skills_content # <<"">> THEN << skills_content >> ELSE <<>>)
    \o << <<"", "# PROJECT CONTEXT START", "">>,
          tree, <<"", "# FILE CONTENTS", "">>, content >>

\* The pieces run_generation joins into the document.
final_output(skills_content, tree, content) ==
    (IF skills_content # <<"">>
     THEN << skills_content, <<"", "# PROJECT CONTEXT START", "">> >>
     ELSE <<>>)
    \o << tree, <<"", "# FILE CONTENTS", "">>, content >>

\* What open(output_file, "w") raises, "" when it opens.
writeError(out) ==
    LET target == abspath(out)
    IN  IF target \in Dirs
        THEN "[Errno 21] Is a directory: '" \o out \o "'"
        ELSE IF parent(target) \notin Dirs
        THEN "[Errno 2] No such file or directory: '" \o out \o "'"
        ELSE ""

\* run_generation, all it computes: the extended ignore set, the two scans,
\* the document and the text returned.  The size that the success text ends
\* with is left out.
generation(source_dir, out, has_manager, selected) ==
    LET ignored == IGNORED_FILES \cup { basename(out) }
        entries == tree_entries(source_dir, ignored)
        tree == generate_tree_structure(source_dir, entries)
        blocks == scan_blocks(source_dir, ignored)
        content == process_directory(blocks)
        skills_content ==
            IF has_manager THEN get_compiled_skills(selected) ELSE <<"">>
        doc == join(final_output(skills_content, tree, content))
        err == writeError(out)
    IN  [ source_dir |-> source_dir, output_file |-> out,
          has_manager |-> has_manager, selected |-> selected,
          ignored |-> ignored, entries |-> entries, tree |-> tree,
          blocks |-> blocks, content |-> content,
          skills_content |-> skills_content, doc |-> doc,
          wrote |-> (err = ""),
          result |-> IF err = ""
                     THEN "SUCCESS! Saved to '" \o basename(out) \o "'"
                     ELSE "ERROR: " \o err ]

\* The file system after the document is written.
written(out, doc) ==
    LET target == abspath(out)
        new == [ st |-> "ok", body |-> doc, tables |-> <<>> ]
    IN  [ p \in DOMAIN files \cup {target} |-> IF p = target THEN new ELSE files[p] ]

\* run_generation that adds output_file as given, not its basename, to the
\* ignore set.
run_generation_adds_path(r, finalised) ==
    /\ IGNORED_FILES' = IGNORED_FILES \cup { r.output_file }
    /\ files' = IF r.wrote THEN written(r.output_file, r.doc) ELSE files
    /\ open_conns' = open_conns + (IF finalised THEN 0 ELSE sumUnclosed(r.blocks))
    /\ gens' = gens + 1
    /\ last' = r

\* The state change of one run_generation call that returns the text r.result.
\* A connection left unclosed is closed by the runtime when it finalises the
\* object, at once or at some later time: both are outcomes.
run_generation(r, finalised) ==
    /\ IGNORED_FILES' = r.ignored
    /\ files' = IF r.wrote THEN written(r.output_file, r.doc) ELSE files
    /\ open_conns' = open_conns + (IF finalised THEN 0 ELSE sumUnclosed(r.blocks))
    /\ gens' = gens + 1
    /\ last' = r

NoRun ==
    [ source_dir |-> <<>>, output_file |-> "", has_manager |-> FALSE,
      selected |-> {}, ignored |-> {}, entries |-> <<>>, tree |-> <<>>,
      blocks |-> <<>>, content |-> <<>>, skills_content |-> <<>>,
      doc |-> <<>>, wrote |-> FALSE, result |-> "" ]

NoToggle == [ index |-> -1, before |-> {}, result |-> "" ]

(***************************************************************************)
(* The start states.                                                       *)
(***************************************************************************)

text(body) == [ st |-> "ok", body |-> body, tables |-> <<>> ]

other(st) == [ st |-> st, body |-> <<"">>, tables |-> <<>> ]

database(tables) == [ st |-> "ok", body |-> <<"">>, tables |-> tables ]

sqlite_sequence ==
    [ name |-> "sqlite_sequence",
      cols |-> << [ name |-> "name", dtype |-> "", notnull |-> FALSE, dflt |-> "", pk |-> FALSE ],
                  [ name |-> "seq", dtype |-> "", notnull |-> FALSE, dflt |-> "", pk |-> FALSE ] >>,
      fks |-> <<>> ]

users ==
    [ name |-> "users",
      cols |-> << [ name |-> "id", dtype |-> "INTEGER", notnull |-> FALSE, dflt |-> "", pk |-> TRUE ],
                  [ name |-> "name", dtype |-> "TEXT", notnull |-> TRUE, dflt |-> "'anon'", pk |-> FALSE ],
                  [ name |-> "team", dtype |-> "INTEGER", notnull |-> FALSE, dflt |-> "", pk |-> FALSE ] >>,
      fks |-> << [ target_table |-> "teams", source_col |-> "team", target_col |-> "id" ] >> ]

\* The files every start state has.
BaseFiles ==
    ( <<"a.py">> :> text(<<"print(1)", "">>) )
    @@ ( <<".env">> :> text(<<"KEY=1", "">>) )
    @@ ( <<".gitignore">> :> text(<<"*.pyc", "">>) )
    @@ ( <<".hidden">> :> text(<<"">>) )
    @@ ( <<"app.log">> :> text(<<"started", "">>) )
    @@ ( <<"empty.db">> :> database(<<>>) )
    @@ ( <<"users.db">> :> database(<<users, sqlite_sequence>>) )
    @@ ( <<"docs", "api.md">> :> text(<<"# API", "">>) )
    @@ ( <<"build", "gen.py">> :> text(<<"">>) )
    @@ ( <<"build", "src", "deep.py">> :> text(<<"">>) )
    @@ ( <<"src", "main.py">> :> text(<<"import a", "">>) )
    @@ ( <<"src", "o1.md">> :> text(<<"# One">>) )
    @@ ( <<"src", "seq.SQLITE">> :> database(<<sqlite_sequence>>) )
    @@ ( <<"src", "build", "out.js">> :> text(<<"">>) )
    @@ ( <<"skills", "a.md">> :> text(<<"Be brief.", "">>) )
    @@ ( <<"skills", "b.md">> :> other("eacces") )
    @@ ( <<"skills", "notes.txt">> :> text(<<"">>) )

\* The files a start state may have besides: a dangling link, and a file
\* named as a database that is none.
OptionalFiles ==
    { <<>>,
      ( <<"src", "link.txt">> :> other("enoent") ),
      ( <<"bad.db">> :> other("notadb") ),
      ( <<"src", "link.txt">> :> other("enoent") ) @@ ( <<"bad.db">> :> other("notadb") ) }

InitFiles == { BaseFiles @@ o : o \in OptionalFiles }

(***************************************************************************)
(* main and the menu loop of interactive_mode.                             *)
(***************************************************************************)

Init ==
    /\ files \in InitFiles
    /\ walkOrder \in { "asc", "desc" }
    /\ IGNORED_FILES = InitialIgnoredFiles
    /\ pc = "main"
    /\ exit_status = 0
    /\ current_source_dir = <<>>
    /\ output_file = ""
    /\ status_message = ""
    /\ available_skills = <<>>
    /\ selected_skills = {}
    /\ open_conns = 0
    /\ gens = 0
    /\ last = NoRun
    /\ last_toggle = NoToggle

\* main(): parse the arguments, then the menu or one generation.
Main(args, finalised) ==
    /\ pc = "main"
    /\ LET out == IF args.out # "" THEN args.out ELSE "project_context.md"
           should_run_interactive == args.interactive \/ args.source = ""
       IN  IF should_run_interactive
           THEN \* interactive_mode up to its first prompt
                /\ pc' = "display"
                /\ current_source_dir' = abspath(args.source)
                /\ output_file' = out
                /\ status_message' = "Ready"
                /\ available_skills' = load_skills
                /\ UNCHANGED << files, walkOrder, IGNORED_FILES, exit_status,
                                selected_skills, open_conns, gens, last, last_toggle >>
           ELSE IF ~isdir(args.source)
           THEN /\ pc' = "exited"
                /\ exit_status' = 1
                /\ UNCHANGED << files, walkOrder, IGNORED_FILES, current_source_dir,
                                output_file, status_message, available_skills,
                                selected_skills, open_conns, gens, last, last_toggle >>
           ELSE /\ run_generation(generation(abspath(args.source), out, FALSE, {}),
                                  finalised)
                /\ pc' = "exited"
                /\ exit_status' = 0
                /\ UNCHANGED << walkOrder, current_source_dir, output_file,
                                status_message, available_skills, selected_skills,
                                last_toggle >>

choice(line) == lower(strip(line))

ChoiceQuit(line) ==
    /\ pc = "display"
    /\ choice(line) = "q"
    /\ pc' = "exited"
    /\ exit_status' = 0
    /\ UNCHANGED << files, walkOrder, IGNORED_FILES, current_source_dir, output_file,
                    status_message, available_skills, selected_skills, open_conns,
                    gens, last, last_toggle >>

ChoiceSource(line, typed) ==
    /\ pc = "display"
    /\ choice(line) = "s"
    /\ LET new_dir == get_input_with_cancel(typed)
       IN  IF new_dir # ""
           THEN IF isdir(new_dir)
                THEN /\ current_source_dir' = abspath(new_dir)
                     /\ status_message' = "Source directory updated."
                ELSE /\ status_message' = "Error: '" \o new_dir \o "' is not a directory."
                     /\ UNCHANGED current_source_dir
           ELSE /\ status_message' = "Change directory cancelled."
                /\ UNCHANGED current_source_dir
    /\ UNCHANGED << files, walkOrder, IGNORED_FILES, pc, exit_status, output_file,
                    available_skills, selected_skills, open_conns, gens, last,
                    last_toggle >>

ChoiceOutput(line, typed) ==
    /\ pc = "display"
    /\ choice(line) = "o"
    /\ LET new_out == get_input_with_cancel(typed)
       IN  IF new_out # ""
           THEN /\ output_file' = new_out
                /\ status_message' = "Output filename updated."
           ELSE /\ status_message' = "Change filename cancelled."
                /\ UNCHANGED output_file
    /\ UNCHANGED << files, walkOrder, IGNORED_FILES, pc, exit_status,
                    current_source_dir, available_skills, selected_skills,
                    open_conns, gens, last, last_toggle >>

ChoiceGenerate(line, finalised) ==
    /\ pc = "display"
    /\ choice(line) = "g"
    /\ LET r == generation(current_source_dir, output_file, TRUE, selected_skills)
       IN  /\ run_generation(r, finalised)
           /\ status_message' = r.result
    /\ UNCHANGED << walkOrder, pc, exit_status, current_source_dir, output_file,
                    available_skills, selected_skills, last_toggle >>

\* A choice that str.isdigit accepts: int(choice) raises ValueError for some,
\* and nothing catches it.
ChoiceDigit(line) ==
    /\ pc = "display"
    /\ choice(line) \notin { "q", "s", "o", "g" }
    /\ isdigit(choice(line))
    /\ IF intRaises(choice(line))
       THEN /\ pc' = "exited"
            /\ exit_status' = 1
            /\ UNCHANGED << status_message, selected_skills, last_toggle >>
       ELSE LET idx == int(choice(line)) - 1
                t == toggle_skill(idx, selected_skills)
            IN  /\ selected_skills' = t.selected
                /\ status_message' = t.result
                /\ last_toggle' = [ index |-> idx, before |-> selected_skills,
                                    result |-> t.result ]
                /\ UNCHANGED << pc, exit_status >>
    /\ UNCHANGED << files, walkOrder, IGNORED_FILES, current_source_dir, output_file,
                    available_skills, open_conns, gens, last >>

ChoiceInvalid(line) ==
    /\ pc = "display"
    /\ choice(line) \notin { "q", "s", "o", "g" }
    /\ ~isdigit(choice(line))
    /\ status_message' = "Invalid option."
    /\ UNCHANGED << files, walkOrder, IGNORED_FILES, pc, exit_status,
                    current_source_dir, output_file, available_skills,
                    selected_skills, open_conns, gens, last, last_toggle >>

(***************************************************************************)
(* Specifications.  Each draws what is typed from sets that make the cases *)
(* of its claims happen, and bounds the number of run_generation calls.    *)
(***************************************************************************)

\* main's arguments: source directory (positional or --dir; "" when not
\* given), output filename ("" when not given), --interactive.
NoArgs == [ source |-> "", out |-> "", interactive |-> FALSE ]

QuickArgs ==
    { [ source |-> ".", out |-> "", interactive |-> FALSE ],
      [ source |-> "nope", out |-> "", interactive |-> FALSE ] }

\* The scans: every source root, output names that extend the ignore set
\* and one that cannot be written.
MaxScans == 1

ScanSources == { "src", "build" }

ScanOutputs == { ".gitignore", "nodir/out.md" }

NextScan ==
    \/ \E args \in QuickArgs \cup {NoArgs}, finalised \in BOOLEAN : Main(args, finalised)
    \/ \E typed \in ScanSources : ChoiceSource("s", typed)
    \/ \E typed \in ScanOutputs : ChoiceOutput("o", typed)
    \/ gens < MaxScans /\ \E finalised \in BOOLEAN : ChoiceGenerate("g", finalised)

Spec == Init /\ [][NextScan]_vars

\* Repeated generations from the working directory.
MaxGen == 2

TwiceOutputs == { "out.md", "o[1].md" }

NextTwice ==
    \/ \E finalised \in BOOLEAN : Main(NoArgs, finalised)
    \/ \E typed \in TwiceOutputs : ChoiceOutput("o", typed)
    \/ gens < MaxGen /\ \E finalised \in BOOLEAN : ChoiceGenerate("g", finalised)

SpecTwice == Init /\ [][NextTwice]_vars

\* The skills: every choice of a skill number, and the documents compiled.
MaxSkillGen == 1

SkillLines == { "0", "1", "2", "3" }

NextSkills ==
    \/ \E args \in QuickArgs \cup {NoArgs}, finalised \in BOOLEAN : Main(args, finalised)
    \/ \E line \in SkillLines : ChoiceDigit(line)
    \/ gens < MaxSkillGen /\ \E finalised \in BOOLEAN : ChoiceGenerate("g", finalised)

SpecSkills == Init /\ [][NextSkills]_vars

\* The menu: every kind of line at every prompt.
MaxMenuGen == 1

MenuLines == { "q", " Q", "s", "S ", "o", "g", "0", "1", "²", "", "x", "go" }

SourceInputs == { "", " ", "b", Interrupt, "src", "nope" }

OutputInputs == { "", "B", Interrupt, "nodir/out.md" }

NextMenu ==
    \/ \E finalised \in BOOLEAN : Main(NoArgs, finalised)
    \/ \E line \in MenuLines : ChoiceQuit(line)
    \/ \E line \in MenuLines, typed \in SourceInputs : ChoiceSource(line, typed)
    \/ \E line \in MenuLines, typed \in OutputInputs : ChoiceOutput(line, typed)
    \/ gens < MaxMenuGen
        /\ \E line \in MenuLines, finalised \in BOOLEAN : ChoiceGenerate(line, finalised)
    \/ \E line \in MenuLines : ChoiceDigit(line)
    \/ \E line \in MenuLines : ChoiceInvalid(line)

SpecMenu == Init /\ [][NextMenu]_vars

\* The two prompts: every kind of line typed at them, with a skill selected
\* or not, before and after a generation.
MaxPromptGen == 1

SourceLines == { line \in MenuLines : choice(line) = "s" }

OutputLines == { line \in MenuLines : choice(line) = "o" }

NextPrompt ==
    \/ \E finalised \in BOOLEAN : Main(NoArgs, finalised)
    \/ \E line \in SourceLines, typed \in SourceInputs : ChoiceSource(line, typed)
    \/ \E line \in OutputLines, typed \in OutputInputs : ChoiceOutput(line, typed)
    \/ ChoiceDigit("1")
    \/ gens < MaxPromptGen /\ \E finalised \in BOOLEAN : ChoiceGenerate("g", finalised)

SpecPrompt == Init /\ [][NextPrompt]_vars

(***************************************************************************)
(* What the properties speak of.                                           *)
(***************************************************************************)

\* Path p lies below directory d.
under(p, d) == Len(p) > Len(d) /\ SubSeq(p, 1, Len(d)) = d

\* No directory on the path of p below source_dir matches IGNORED_DIRS, the
\* name of p matches no pattern of ignored, and the name is not hidden or is
\* an included hidden name.
Visible(p, source_dir, ignored) ==
    /\ under(p, source_dir)
    /\ \A i \in (Len(source_dir) + 1)..(Len(p) - 1) :
          \A pattern \in IGNORED_DIRS : ~fnmatch(p[i], pattern)
    /\ \A pattern \in ignored : ~fnmatch(leaf(p), pattern)
    /\ \/ ~startswith(leaf(p), ".")
       \/ \E pattern \in INCLUDE_HIDDEN_FILES : fnmatch(leaf(p), pattern)

\* The name of p makes process_directory read it as a database.
SqliteNamed(p) ==
    \/ lower(splitext(leaf(p))) \in SQLITE_EXTENSIONS
    \/ leaf(p) \in SQLITE_EXACT_FILENAMES

\* Reading p in process_directory raises nothing.
CanRead(p, fs) == SqliteNamed(p) \/ fs[p].st \notin { "enoent", "eacces" }

\* The files the tree of generation r lists, and those its bodies dump.
Listed(r) == Range(treeFiles(r.entries))

Dumped(r) == { r.blocks[i].path : i \in 1..Len(r.blocks) }

\* The header lines of the bodies, in the order of the text.
FileHeaders(content) ==
    SelectSeq(content, LAMBDA l : startswith(l, "**File:** "))

IsDumped(p) == p \in Dumped(last)

ContextMarker == "# PROJECT CONTEXT START"

InRange(index) == 0 <= index /\ index < Len(available_skills)

\* The line typed at a prompt is blank or a cancel.
Cancels(typed) ==
    typed = Interrupt \/ strip(typed) = "" \/ lower(strip(typed)) = "b"

(***************************************************************************)
(* C1.                                                                     *)
(***************************************************************************)

\* C1, as amended: in every generation, a file of the source tree is listed
\* in the tree iff no directory on its path below the source root matches
\* IGNORED_DIRS, its name matches no IGNORED_FILES pattern and its name is not
\* hidden or matches INCLUDE_HIDDEN_FILES; it is dumped in the bodies iff
\* moreover reading it raises nothing.  A name matching both an ignore
\* pattern and an include-hidden pattern is in neither.
C1_ListedIffVisible ==
    [][ gens' = gens + 1 =>
          \A p \in DOMAIN files :
             /\ p \in Listed(last') <=> Visible(p, last'.source_dir, IGNORED_FILES')
             /\ p \in Dumped(last') <=>
                  (Visible(p, last'.source_dir, IGNORED_FILES') /\ CanRead(p, files))
             /\ (/\ \E pattern \in IGNORED_FILES' : fnmatch(leaf(p), pattern)
                 /\ \E pattern \in INCLUDE_HIDDEN_FILES : fnmatch(leaf(p), pattern))
                => p \notin Listed(last') \cup Dumped(last') ]_vars

\* C1, witness: a generation from the working directory with output
\* .gitignore: .gitignore is left out, the dangling link is listed and not
\* dumped, a.py is dumped.
C1_Witness ==
    /\ gens > 0
    /\ last.source_dir = <<>>
    /\ last.output_file = ".gitignore"
    /\ <<".gitignore">> \notin Listed(last) \cup Dumped(last)
    /\ <<"src", "link.txt">> \in Listed(last) \ Dumped(last)
    /\ <<"a.py">> \in Listed(last) \cap Dumped(last)

\* C1, as stated: a file is in the tree listing and in the bodies iff it is
\* visible, and the two walks agree on the set of files.
C1_WalksAgree ==
    [][ gens' = gens + 1 =>
          /\ \A p \in DOMAIN files :
                /\ p \in Listed(last') <=> Visible(p, last'.source_dir, IGNORED_FILES')
                /\ p \in Dumped(last') <=> Visible(p, last'.source_dir, IGNORED_FILES')
          /\ Listed(last') = Dumped(last') ]_vars

(***************************************************************************)
(* C2.                                                                     *)
(***************************************************************************)

\* C2: every document written is the tree listing, the '# FILE CONTENTS'
\* header and the bodies, in this order and with the bodies in the order the
\* tree lists the files; the compiled skills and the
\* '# PROJECT CONTEXT START' marker precede the tree iff a skill manager is
\* given and a skill is selected, and otherwise the document has neither.
C2_DocumentOrder ==
    (gens > 0 /\ last.wrote) =>
        LET doc == files[abspath(last.output_file)].body
            hasSkills == last.has_manager /\ last.selected # {}
            preamble == IF hasSkills
                        THEN last.skills_content \o <<"", ContextMarker, "">>
                        ELSE <<>>
            order == SelectSeq(treeFiles(last.entries), IsDumped)
        IN  /\ doc = preamble \o last.tree \o <<"", "# FILE CONTENTS", "">>
                       \o last.content
            /\ hasSkills => /\ Len(last.skills_content) > 1
                            /\ doc[1] = "# ACTIVE AGENT SKILLS & PERSONAS"
            /\ ~hasSkills => /\ ContextMarker \notin Range(doc)
                             /\ doc[1] = "# " \o dirName(last.source_dir)
                                              \o " Project Structure"
            /\ [ i \in 1..Len(last.blocks) |-> last.blocks[i].path ] = order
            /\ FileHeaders(last.content) =
                 [ i \in 1..Len(order) |->
                     "**File:** '"
                     \o pathJoin(SubSeq(order[i], Len(last.source_dir) + 1,
                                        Len(order[i])))
                     \o "'" ]

\* C2, witness: a document written from the menu with both skills selected,
\* the marker in it.
C2_Witness ==
    /\ gens > 0
    /\ last.wrote
    /\ last.has_manager
    /\ last.selected = { "a.md", "b.md" }
    /\ ContextMarker \in Range(files[abspath(last.output_file)].body)
    /\ Len(last.blocks) > 1

(***************************************************************************)
(* C3.                                                                     *)
(***************************************************************************)

\* C3, as stated: a second generation with the same output filename, source
\* directory and skills, after a first one that wrote its output inside the
\* source tree, produces the same document, and the output file of the first
\* is neither listed nor dumped.
C3_Idempotent ==
    [][ ( /\ gens' = gens + 1
          /\ gens > 0
          /\ last.wrote
          /\ last'.output_file = last.output_file
          /\ last'.source_dir = last.source_dir
          /\ last'.selected = last.selected
          /\ last'.has_manager = last.has_manager
          /\ under(abspath(last.output_file), last.source_dir) )
        => /\ last'.doc = last.doc
           /\ abspath(last.output_file) \notin Listed(last') \cup Dumped(last') ]_vars

(***************************************************************************)
(* C4.                                                                     *)
(***************************************************************************)

\* C4: a call of toggle_skill with an in-range index flips the membership of
\* the skill at that index, reports Added or Removed accordingly and leaves
\* the membership of every other skill alone; a second call in a row with the
\* same index returns the selected set to its value before the first and
\* reports the opposite; the compiled skills of a generation have a section
\* for a skill iff it is selected.
C4_ToggleTwice ==
    [][ /\ (last_toggle' # last_toggle /\ InRange(last_toggle'.index)) =>
             LET skill == available_skills[last_toggle'.index + 1]
             IN  /\ last_toggle'.before = selected_skills
                 /\ \A s \in (selected_skills \cup selected_skills'
                              \cup Range(available_skills)) \ {skill} :
                        s \in selected_skills' <=> s \in selected_skills
                 /\ skill \in selected_skills' <=> skill \notin selected_skills
                 /\ last_toggle'.result =
                      (IF skill \in selected_skills'
                       THEN "Added skill: " ELSE "Removed skill: ") \o skill
                 /\ status_message' = last_toggle'.result
                 /\ last_toggle.index = last_toggle'.index =>
                      /\ selected_skills' = last_toggle.before
                      /\ last_toggle.result # last_toggle'.result
        /\ (gens' = gens + 1 /\ last'.has_manager) =>
             \A s \in Range(available_skills) :
                s \in selected_skills <=>
                  \E i \in 1..Len(last'.skills_content) :
                     \/ last'.skills_content[i] = "## Skill Module: " \o s
                     \/ startswith(last'.skills_content[i],
                                   "Error loading skill " \o s \o ":") ]_vars

\* C4, witness: the first skill was added and then removed while the second
\* stays selected, and the document generated has the second only.
C4_Witness ==
    /\ last_toggle.index = 0
    /\ last_toggle.before = { "a.md", "b.md" }
    /\ last_toggle.result = "Removed skill: a.md"
    /\ selected_skills = { "b.md" }
    /\ gens > 0
    /\ last.selected = { "b.md" }
    /\ "## Skill Module: a.md" \notin Range(last.skills_content)

(***************************************************************************)
(* C5.                                                                     *)
(***************************************************************************)

\* C5, as amended: 's' and 'o' return to Display; on a blank line or a
\* cancel they leave the source directory, the output filename and the
\* selected skills unchanged and set the status to the cancelled message;
\* 's' changes the source directory only when the line names an existing
\* directory, and on another path sets an error status and leaves the source
\* directory, output filename and selected skills unchanged; 'o' changes only
\* the output filename and the status.
C5_PromptFrame ==
    [][ /\ \A line \in SourceLines, typed \in SourceInputs :
             ChoiceSource(line, typed) =>
               /\ pc' = "display"
               /\ UNCHANGED << output_file, selected_skills >>
               /\ Cancels(typed) =>
                    /\ UNCHANGED current_source_dir
                    /\ status_message' = "Change directory cancelled."
               /\ current_source_dir' # current_source_dir =>
                    /\ ~Cancels(typed)
                    /\ abspath(strip(typed)) \in Dirs
                    /\ current_source_dir' = abspath(strip(typed))
               /\ (~Cancels(typed) /\ abspath(strip(typed)) \notin Dirs) =>
                    /\ UNCHANGED current_source_dir
                    /\ startswith(status_message', "Error: ")
        /\ \A line \in OutputLines, typed \in OutputInputs :
             ChoiceOutput(line, typed) =>
               /\ pc' = "display"
               /\ UNCHANGED << current_source_dir, selected_skills, IGNORED_FILES,
                               files, available_skills >>
               /\ Cancels(typed) =>
                    /\ UNCHANGED output_file
                    /\ status_message' = "Change filename cancelled."
               /\ ~Cancels(typed) => output_file' = strip(typed) ]_vars

\* C5, witness: after the source directory was changed to src, a cancelled
\* 's' left it there.
C5_Witness ==
    /\ pc = "display"
    /\ status_message = "Change directory cancelled."
    /\ current_source_dir = <<"src">>
    /\ output_file = "nodir/out.md"

\* C5, as stated: on a blank line or a cancel, 's' and 'o' leave the source
\* directory, the output filename, the last status message and the selected
\* skills unchanged.
C5_CancelUnchanged ==
    [][ /\ \A line \in SourceLines, typed \in SourceInputs :
             (ChoiceSource(line, typed) /\ Cancels(typed)) =>
               UNCHANGED << current_source_dir, output_file, status_message,
                            selected_skills >>
        /\ \A line \in OutputLines, typed \in OutputInputs :
             (ChoiceOutput(line, typed) /\ Cancels(typed)) =>
               UNCHANGED << current_source_dir, output_file, status_message,
                            selected_skills >> ]_vars

(***************************************************************************)
(* C6.                                                                     *)
(***************************************************************************)

\* C6, as stated: the menu loop leaves Display only on the quit command, and
\* then the process exits with status 0; every other line returns to Display.
C6_LeavesOnlyOnQuit ==
    [][ (pc = "display" /\ pc' # "display") =>
          /\ \E line \in MenuLines : choice(line) = "q" /\ ChoiceQuit(line)
          /\ exit_status' = 0 ]_vars

(***************************************************************************)
(* C7.                                                                     *)
(***************************************************************************)

C8_NoOpenConnection == open_conns = 0

(***************************************************************************)
(* C9.                                                                     *)
(***************************************************************************)

\* C9, as stated: for a database file that opens, get_sqlite_schema returns
\* the fixed 'Database is empty or contains no user tables.' text when the
\* file has no table whose name does not start with sqlite_, and a schema
\* summary only when it has one.
C9_EmptyDatabaseMessage ==
    \A i \in 1..Len(last.blocks) :
       LET b == last.blocks[i]
           f == files[b.path]
           userTables == SelectSeq(f.tables,
                                   LAMBDA t : ~startswith(t.name, "sqlite_"))
       IN  (SqliteNamed(b.path) /\ f.st = "ok") =>
              IF userTables = <<>>
              THEN b.content = <<"Database is empty or contains no user tables.">>
              ELSE b.content[1] = "# SQLite Schema: " \o leaf(b.path)

(***************************************************************************)
(* C10.                                                                    *)
(***************************************************************************)

\* C10, as stated: IGNORED_FILES only grows, each generation adds the
\* basename of its output filename, and a generation lists and dumps no file
\* whose name is the output filename of an earlier generation.
C10_IgnoreSetGrows ==
    [][ /\ IGNORED_FILES \subseteq IGNORED_FILES'
        /\ gens' = gens + 1 =>
             /\ IGNORED_FILES' = IGNORED_FILES \cup { basename(last'.output_file) }
             /\ \A A \in IGNORED_FILES \ InitialIgnoredFiles :
                   \A p \in DOMAIN files :
                      (leaf(p) = A /\ A # basename(last'.output_file))
                      => p \notin Listed(last') \cup Dumped(last') ]_vars

====
